---- MODULE Spec2Model ----
(***************************************************************************)
(* CortexChat (cortex_chat.py): one chat turn posts a request, reads the   *)
(* response as a stream of lines, folds status / tool events into the      *)
(* planning steps, drives the Slack "Thinking" message, and returns the    *)
(* summary the response parser extracts.                                   *)
(*                                                                         *)
(* Text is a sequence of chunks (string concatenation is \o).  A line of   *)
(* the stream is a record [prefix, body]: prefix is what startswith() can  *)
(* see ("event: ", "data: " or ""), body is the rest after strip().        *)
(* An optional value is <<>> (absent) or <<v>>.                            *)
(***************************************************************************)
EXTENDS Integers, Sequences, FiniteSets, TLC

\* ---------------------------------------------------------------- bounds
\* Lines one turn reads from the stream (main specification).
MaxLines == 3
\* Lines one turn reads in the secondary-channel throttle specification.
MaxSecondary == 5
\* Lines one turn reads when tool uses interleave with secondary status objects.
MaxMixed == 4
\* Status messages one invocation reads when two invocations interleave.
MaxOwnSteps == 2

\* ------------------------------------------------------------ line bodies
DoneBody == "[DONE]"
BracketBody == "[1, 2]"
MalformedBody == "{oops"
NumberBody == "5"
MessageBody == "{\"message\": \"Searching\"}"
StatusBody == "{\"status\": \"EXECUTING\", \"status_message\": \"Running\"}"
StopBody == "{\"status\": \"REASONING_AGENT_STOP\", \"status_message\": \"Stopping\"}"
BlankStatusBody == "{\"status\": \"\", \"status_message\": \"Orphan\"}"
ToolABody == "{delta: tool_use search}"
ToolATwiceBody == "{delta: tool_use search, tool_use search}"
ToolBBody == "{delta: tool_use analyst}"
ToolAnonBody == "{delta: tool_use {}}"
TextBody == "{delta: text Hello}"
ResultBody == "{delta: tool_result verified sql}"
SqlResultBody == "{delta: tool_result sql}"
DocumentBody == "{\"text\": \"Hello\"}"

Obj(fields) == [t |-> "object", v |-> fields]

ToolUse(name) == [type |-> "tool_use", tool_use |-> [name |-> name]]

Delta(items) == Obj([object |-> "message.delta", delta |-> [content |-> items]])

\* json.loads on the bodies above: ok = FALSE is json.JSONDecodeError.
json_loads(s) ==
  CASE s = NumberBody -> [ok |-> TRUE, value |-> [t |-> "number", v |-> 5]]
    [] s = MessageBody -> [ok |-> TRUE, value |-> Obj([message |-> "Searching"])]
    [] s = StatusBody ->
         [ok |-> TRUE, value |-> Obj([status |-> "EXECUTING", status_message |-> "Running"])]
    [] s = StopBody ->
         [ok |-> TRUE,
          value |-> Obj([status |-> "REASONING_AGENT_STOP", status_message |-> "Stopping"])]
    [] s = BlankStatusBody ->
         [ok |-> TRUE, value |-> Obj([status |-> "", status_message |-> "Orphan"])]
    [] s = ToolABody -> [ok |-> TRUE, value |-> Delta(<<ToolUse("search")>>)]
    [] s = ToolATwiceBody ->
         [ok |-> TRUE, value |-> Delta(<<ToolUse("search"), ToolUse("search")>>)]
    [] s = ToolBBody -> [ok |-> TRUE, value |-> Delta(<<ToolUse("analyst")>>)]
    [] s = ToolAnonBody ->
         [ok |-> TRUE, value |-> Delta(<<[type |-> "tool_use", tool_use |-> [input |-> "x"]]>>)]
    [] s = TextBody -> [ok |-> TRUE, value |-> Delta(<<[type |-> "text", text |-> "Hello"]>>)]
    [] s = ResultBody ->
         [ok |-> TRUE,
          value |-> Delta(<<[type |-> "tool_result",
                             tool_result |-> [verified_query_used |-> TRUE,
                                              sql |-> "SELECT 1"]]>>)]
    [] s = SqlResultBody ->
         [ok |-> TRUE,
          value |-> Delta(<<[type |-> "tool_result", tool_result |-> [sql |-> "SELECT 2"]]>>)]
    [] s = DocumentBody -> [ok |-> TRUE, value |-> Obj([text |-> "Hello"])]
    [] OTHER -> [ok |-> FALSE]

\* str.startswith('[') on a body.
StartsWithBracket(s) == s \in {DoneBody, BracketBody}

EventLine(name) == [prefix |-> "event: ", body |-> name]

DataLine(body) == [prefix |-> "data: ", body |-> body]

PlainLine(body) == [prefix |-> "", body |-> body]

\* iter_lines() yields b"" for a blank line.
EmptyLine == PlainLine("")

EventNames == {"response.status", "response", "message.delta"}

\* The lines the server sends in the main scenario: framing, both status
\* channels, a tool use, payloads that do not decode, are skipped or are no
\* object, and a line without prefix.
Lines ==
  {EmptyLine, PlainLine(DocumentBody)}
    \cup {EventLine(e) : e \in EventNames}
    \cup {DataLine(b) : b \in {DoneBody, BracketBody, MalformedBody, NumberBody, MessageBody,
                               StatusBody, ToolABody}}

\* The message-delta scenario: content items of every type.
DeltaLines ==
  {DataLine(b) : b \in {DoneBody, ToolABody, ToolATwiceBody, ToolBBody, ToolAnonBody,
                        TextBody, ResultBody}}

\* The secondary-channel scenario: status objects without an object field.
SecondaryLines == {DataLine(b) : b \in {DoneBody, StatusBody, StopBody, BlankStatusBody}}

\* The mixed scenario: secondary status objects between tool uses.
MixedLines == {DataLine(b) : b \in {DoneBody, StatusBody, ToolABody, ToolBBody}}

\* The event-context scenario: every event type, and one payload of each
\* shape to be read under it.
ContextLines ==
  {EventLine(e) : e \in EventNames}
    \cup {DataLine(b) : b \in {MessageBody, StatusBody, ToolABody}}

\* The summary scenario: tool results with and without a verified query.
SummaryLines ==
  {DataLine(b) : b \in {DoneBody, ToolABody, TextBody, ResultBody, SqlResultBody}}

\* ---------------------------------------------------------------- helpers
None == "None"

Get(obj, key, default) == IF key \in DOMAIN obj THEN obj[key] ELSE default

Last(s) == s[Len(s)]

Member(x, s) == \E i \in 1..Len(s) : s[i] = x

\* f"Using {tool_name}" for the tool names of the stream.
UsingStep(tool_name) ==
  CASE tool_name = "search" -> "Using search"
    [] tool_name = "analyst" -> "Using analyst"
    [] OTHER -> "Using unknown"

\* One call on the Slack surface, as the surface sees it.  steps is the number
\* of planning steps at the time of the call.
Call(op, what, ok, steps) == [op |-> op, what |-> what, ok |-> ok, steps |-> steps]

\* The threads that call chat() on the one CortexChat object.
Threads == {1, 2}

\* The locals of an invocation that has not started.
NotStarted == [pc |-> "idle", planning_updates |-> <<>>, created |-> None, calls |-> <<>>]

\* --------------------------------------------------------------- variables
VARIABLES
  slack_say,            \* self.slack_say is set (a callable)
  slack_app,            \* self.slack_app is set
  app_channel_id,       \* slack_app._channel_id, None when the attribute is absent
  planning_message_ts,  \* self.planning_message_ts ("unset" before the first turn)
  planning_channel,     \* self.planning_channel ("unset" before the first turn)
  planning_steps,       \* self.planning_steps, optional
  sql_queries,          \* self.sql_queries, optional
  verification_info,    \* self.verification_info, optional
  verified_query_used,  \* self.verified_query_used, optional
  pc,                   \* position of the turn in _retrieve_response
  transport,            \* outcome of requests.post / raise_for_status of the turn
  response_lines,       \* locals of _retrieve_response
  tools_used,
  current_thinking,
  planning_updates,
  line_count,
  current_event,
  summary,              \* the parser's summary of the turn, optional
  parser_calls,         \* the parser entry points invoked in the turn
  error,                \* the (error_msg, slack_title) handed to _handle_error
  result,               \* what chat() returned, optional
  calls,                \* the calls the turn made on the Slack surface
  lines,                \* the lines the server can send
  max_lines,            \* how many lines the server sends at most
  inv                   \* the chat() invocations running on threads of their own

config == <<slack_say, slack_app, app_channel_id>>

stored == <<planning_steps, sql_queries, verification_info, verified_query_used>>

record == <<planning_message_ts, planning_channel>>

locals ==
  <<response_lines, tools_used, current_thinking, planning_updates, line_count, current_event>>

scenario == <<lines, max_lines, inv>>

vars ==
  <<config, stored, record, locals, scenario, pc, transport, summary, parser_calls, error,
    result, calls>>

\* ------------------------------------------------- the body of the read loop
\* Mutation of IsDone: the sentinel is never recognised.
IsDoneNever(data_content) == FALSE

\* The sentinel test of line 114.
IsDone(data_content) == data_content = DoneBody

\* Mutation of Throttle: the odd step counts refresh.
ThrottleOdd(step_count) == step_count % 2 = 1

\* Mutation of Throttle: no throttling.
ThrottleNone(step_count) == TRUE

\* The throttle of line 251: every 2nd planning step.
Throttle(step_count) == step_count % 2 = 0

\* Lines 134-155: the chat_update call of the primary refresh: the record it
\* addresses and the step its text shows.
PrimaryUpdate(planning_updates_, upd_ok) ==
  [op |-> "chat_update", what |-> "refresh_primary", ok |-> upd_ok,
   steps |-> Len(planning_updates_), channel |-> planning_channel,
   ts |-> planning_message_ts, latest_step |-> Last(planning_updates_)]

\* Mutation of RefreshPrimary: the throttle of the secondary channel is
\* applied to the primary channel as well.
RefreshPrimaryThrottled(planning_updates_, upd_ok) ==
  IF slack_app /\ planning_message_ts # None /\ planning_channel # None
       /\ Throttle(Len(planning_updates_))
    THEN <<PrimaryUpdate(planning_updates_, upd_ok)>>
    ELSE <<>>

\* Lines 131-161: refresh the record on a response.status step; a failed
\* update is printed and dropped.
RefreshPrimary(planning_updates_, upd_ok) ==
  IF slack_app /\ planning_message_ts # None /\ planning_channel # None
    THEN <<PrimaryUpdate(planning_updates_, upd_ok)>>
    ELSE <<>>

\* Mutation of RefreshSecondary: a failed fallback post is tried once more.
RefreshSecondaryRetries(planning_updates_, upd_ok, say_ok) ==
  LET n == Len(planning_updates_) IN
  IF slack_app /\ planning_message_ts # None /\ Throttle(n) /\ app_channel_id # None
    THEN IF upd_ok
           THEN [calls |-> <<Call("chat_update", "refresh_secondary", TRUE, n)>>,
                 raised |-> FALSE]
           ELSE IF slack_say
                  THEN [calls |-> <<Call("chat_update", "refresh_secondary", FALSE, n),
                                    Call("say", "progress_fallback", say_ok, n)>>
                                    \o (IF say_ok
                                          THEN <<>>
                                          ELSE <<Call("say", "progress_fallback", TRUE, n)>>),
                        raised |-> FALSE]
                  ELSE [calls |-> <<Call("chat_update", "refresh_secondary", FALSE, n)>>,
                        raised |-> FALSE]
    ELSE [calls |-> <<>>, raised |-> FALSE]

\* Lines 250-305: refresh the record on a secondary status step.  out.calls
\* are the calls made, out.raised is an exception leaving the block.
RefreshSecondary(planning_updates_, upd_ok, say_ok) ==
  LET n == Len(planning_updates_) IN
  IF slack_app /\ planning_message_ts # None /\ Throttle(n)
    THEN IF app_channel_id # None
           THEN IF upd_ok
                  THEN [calls |-> <<Call("chat_update", "refresh_secondary", TRUE, n)>>,
                        raised |-> FALSE]
                  ELSE IF slack_say
                         THEN [calls |-> <<Call("chat_update", "refresh_secondary", FALSE, n),
                                           Call("say", "progress_fallback", say_ok, n)>>,
                               raised |-> ~say_ok]
                         ELSE [calls |-> <<Call("chat_update", "refresh_secondary", FALSE, n)>>,
                               raised |-> FALSE]
           ELSE [calls |-> <<>>, raised |-> FALSE]
    ELSE [calls |-> <<>>, raised |-> FALSE]

\* Mutation of AddTool: the step is put at the head of the log.
AddToolFirst(acc, tool_data) ==
  LET tool_name == Get(tool_data, "name", "unknown") IN
  IF ~Member(tool_name, acc.tools_used)
    THEN [acc EXCEPT !.tools_used = Append(@, tool_name),
                     !.planning_updates = <<UsingStep(tool_name)>> \o @]
    ELSE acc

\* Mutation of AddTool: the membership test of line 189 is missing.
AddToolAlways(acc, tool_data) ==
  LET tool_name == Get(tool_data, "name", "unknown") IN
  [acc EXCEPT !.tools_used = Append(@, tool_name),
              !.planning_updates = Append(@, UsingStep(tool_name))]

\* Lines 186-193: a tool_use content item.
AddTool(acc, tool_data) ==
  LET tool_name == Get(tool_data, "name", "unknown") IN
  IF ~Member(tool_name, acc.tools_used)
    THEN [acc EXCEPT !.tools_used = Append(@, tool_name),
                     !.planning_updates = Append(@, UsingStep(tool_name))]
    ELSE acc

\* Lines 177-233: one content item of a message delta.
FoldItem(acc, content_item) ==
  LET type == Get(content_item, "type", None) IN
  CASE type = "text" ->
         LET text_delta == Get(content_item, "text", "") IN
         IF text_delta # ""
           THEN [acc EXCEPT !.current_thinking = Append(@, text_delta)]
           ELSE acc
    [] type = "tool_use" -> AddTool(acc, Get(content_item, "tool_use", <<>>))
    [] OTHER -> acc

RECURSIVE FoldContent(_, _)
\* Line 176: for content_item in delta['content'].
FoldContent(acc, content) ==
  IF content = <<>> THEN acc ELSE FoldContent(FoldItem(acc, Head(content)), Tail(content))

\* What one pass of the loop body leaves: the accumulators, the calls made and
\* the exception (if any) that leaves the try block of line 56.
Outcome(acc, new_calls, exc) ==
  [tools_used |-> acc.tools_used, current_thinking |-> acc.current_thinking,
   planning_updates |-> acc.planning_updates, calls |-> new_calls, exc |-> exc]

Accumulators ==
  [tools_used |-> tools_used, current_thinking |-> current_thinking,
   planning_updates |-> planning_updates]

\* Mutation of OnResponseStatus: the record is refreshed but the message is
\* not logged.
OnResponseStatusUnlogged(json_data, upd_ok) ==
  IF json_data.t # "object"
    THEN Outcome(Accumulators, <<>>, "TypeError")
    ELSE IF "message" \in DOMAIN json_data.v
           THEN Outcome(Accumulators, RefreshPrimary(planning_updates, upd_ok), None)
           ELSE Outcome(Accumulators, <<>>, None)

\* Lines 123-162: a payload read under event response.status.
OnResponseStatus(json_data, upd_ok) ==
  IF json_data.t # "object"
    THEN Outcome(Accumulators, <<>>, "TypeError")
    ELSE IF "message" \in DOMAIN json_data.v
           THEN LET acc == [Accumulators EXCEPT
                              !.planning_updates = Append(@, json_data.v.message)]
                IN  Outcome(acc, RefreshPrimary(acc.planning_updates, upd_ok), None)
           ELSE Outcome(Accumulators, <<>>, None)

\* Lines 170-233: a message.delta payload.
OnMessageDelta(json_data) ==
  LET delta == Get(json_data.v, "delta", <<>>) IN
  IF "content" \in DOMAIN delta
    THEN Outcome(FoldContent(Accumulators, delta.content), <<>>, None)
    ELSE Outcome(Accumulators, <<>>, None)

\* Mutation of OnUntyped: REASONING_AGENT_STOP is not filtered (line 240).
OnUntypedKeepsStop(json_data, upd_ok, say_ok) ==
  IF "status" \in DOMAIN json_data.v
    THEN LET status == Get(json_data.v, "status", "")
             status_msg == Get(json_data.v, "status_message", "")
         IN  IF status # "" /\ status_msg # ""
               THEN LET acc == [Accumulators EXCEPT
                                  !.planning_updates = Append(@, status_msg)]
                        out == RefreshSecondary(acc.planning_updates, upd_ok, say_ok)
                    IN  Outcome(acc, out.calls, IF out.raised THEN "SlackApiError" ELSE None)
               ELSE Outcome(Accumulators, <<>>, None)
    ELSE Outcome(Accumulators, <<>>, None)

\* Mutation of OnUntyped: the truth test of status (line 240) is missing.
OnUntypedAnyStatus(json_data, upd_ok, say_ok) ==
  IF "status" \in DOMAIN json_data.v
    THEN LET status == Get(json_data.v, "status", "")
             status_msg == Get(json_data.v, "status_message", "")
         IN  IF status \notin {"REASONING_AGENT_STOP"} /\ status_msg # ""
               THEN LET acc == [Accumulators EXCEPT
                                  !.planning_updates = Append(@, status_msg)]
                        out == RefreshSecondary(acc.planning_updates, upd_ok, say_ok)
                    IN  Outcome(acc, out.calls, IF out.raised THEN "SlackApiError" ELSE None)
               ELSE Outcome(Accumulators, <<>>, None)
    ELSE Outcome(Accumulators, <<>>, None)

\* Lines 236-305: a payload without an object field (secondary status).
OnUntyped(json_data, upd_ok, say_ok) ==
  IF "status" \in DOMAIN json_data.v
    THEN LET status == Get(json_data.v, "status", "")
             status_msg == Get(json_data.v, "status_message", "")
         IN  IF status # "" /\ status \notin {"REASONING_AGENT_STOP"} /\ status_msg # ""
               THEN LET acc == [Accumulators EXCEPT
                                  !.planning_updates = Append(@, status_msg)]
                        out == RefreshSecondary(acc.planning_updates, upd_ok, say_ok)
                    IN  Outcome(acc, out.calls, IF out.raised THEN "SlackApiError" ELSE None)
               ELSE Outcome(Accumulators, <<>>, None)
    ELSE Outcome(Accumulators, <<>>, None)

\* Mutation of OnDecodeError: the decode error leaves the try block of line 56.
OnDecodeErrorRaises == Outcome(Accumulators, <<>>, "JSONDecodeError")

\* Lines 316-317: except json.JSONDecodeError: pass.
OnDecodeError == Outcome(Accumulators, <<>>, None)

\* Mutation of OnData: a message delta is recognised by its shape before the
\* event type is looked at.
OnDataShapeFirst(data_content, upd_ok, say_ok) ==
  LET loaded == json_loads(data_content) IN
  IF ~loaded.ok
    THEN Outcome(Accumulators, <<>>, None)
    ELSE LET json_data == loaded.value IN
         IF json_data.t = "object" /\ Get(json_data.v, "object", None) = "message.delta"
           THEN OnMessageDelta(json_data)
           ELSE IF current_event = "response.status"
                  THEN OnResponseStatus(json_data, upd_ok)
                  ELSE IF current_event = "response"
                         THEN Outcome(Accumulators, <<>>, None)
                         ELSE IF json_data.t # "object"
                                THEN Outcome(Accumulators, <<>>, "AttributeError")
                                ELSE IF Get(json_data.v, "object", None) = None
                                       THEN OnUntyped(json_data, upd_ok, say_ok)
                                       ELSE Outcome(Accumulators, <<>>, None)

\* Lines 119-317: a data payload that is neither [DONE] nor starts with '['.
OnData(data_content, upd_ok, say_ok) ==
  LET loaded == json_loads(data_content) IN
  IF ~loaded.ok
    THEN OnDecodeError
    ELSE LET json_data == loaded.value IN
         IF current_event = "response.status"
           THEN OnResponseStatus(json_data, upd_ok)
           ELSE IF current_event = "response"
                  THEN Outcome(Accumulators, <<>>, None)
                  ELSE IF json_data.t # "object"
                         THEN Outcome(Accumulators, <<>>, "AttributeError")
                         ELSE IF Get(json_data.v, "object", None) = "message.delta"
                                THEN OnMessageDelta(json_data)
                                ELSE IF Get(json_data.v, "object", None) = None
                                       THEN OnUntyped(json_data, upd_ok, say_ok)
                                       ELSE Outcome(Accumulators, <<>>, None)

\* What _handle_error is called with after an exception of the given type.
ErrorOf(exc) ==
  CASE exc = "Timeout" ->
         [error_msg |-> <<"Request took longer than 120 seconds">>,
          slack_title |-> "Request timeout"]
    [] exc = "RequestException" ->
         [error_msg |-> <<"Request error: ", exc>>, slack_title |-> "Request failed"]
    [] OTHER ->
         [error_msg |-> <<"Unexpected error: ", exc>>, slack_title |-> "Unexpected error"]

NoError == [error_msg |-> <<>>, slack_title |-> ""]

\* ------------------------------------------------- the response parser
\* The decoded objects of the data lines, in order (parse_sse_response).
RECURSIVE parse_sse_response(_)
parse_sse_response(ls) ==
  IF ls = <<>>
    THEN <<>>
    ELSE LET l == Head(ls)
             loaded == json_loads(l.body)
             keep == l.prefix = "data: " /\ loaded.ok /\ loaded.value.t = "object"
         IN  (IF keep THEN <<loaded.value.v>> ELSE <<>>) \o parse_sse_response(Tail(ls))

\* The joined text decodes only if it is one JSON document (parse_json_response).
parse_json_response(ls) ==
  IF Len(ls) = 1 /\ json_loads(ls[1].body).ok /\ json_loads(ls[1].body).value.t = "object"
    THEN <<json_loads(ls[1].body).value.v>>
    ELSE <<>>

\* The content items of every message delta of the parsed response.
RECURSIVE ContentItems(_)
ContentItems(parsed) ==
  IF parsed = <<>>
    THEN <<>>
    ELSE LET o == Head(parsed)
             delta == Get(o, "delta", <<>>)
         IN  (IF Get(o, "object", None) = "message.delta" /\ "content" \in DOMAIN delta
                THEN delta.content
                ELSE <<>>) \o ContentItems(Tail(parsed))

RECURSIVE Texts(_)
Texts(parsed) ==
  IF parsed = <<>>
    THEN <<>>
    ELSE (IF "text" \in DOMAIN Head(parsed) THEN <<Head(parsed).text>> ELSE <<>>)
           \o Texts(Tail(parsed))

RECURSIVE Queries(_)
Queries(items) ==
  IF items = <<>>
    THEN <<>>
    ELSE LET r == Get(Head(items), "tool_result", <<>>) IN
         (IF "sql" \in DOMAIN r THEN <<r.sql>> ELSE <<>>) \o Queries(Tail(items))

Verified(items) ==
  \E i \in 1..Len(items) :
    Get(Get(items[i], "tool_result", <<>>), "verified_query_used", FALSE)

\* The Summary record (extract_summary): absent fields default to empty.
extract_summary(parsed) ==
  LET items == ContentItems(parsed) IN
  [text |-> Texts(parsed) \o Texts(items),
   sql_queries |-> Queries(items),
   citations |-> <<>>,
   verification_info |-> IF Verified(items) THEN {"verified_query_used"} ELSE {},
   verified_query_used |-> Verified(items)]

\* ---------------------------------------------------------- finalization
\* The entries of additional_info: the verified badge, the count of queries.
VerifiedBadge == [info |-> "verified", n |-> 0]

QueryCount(sql_queries_) == [info |-> "queries", n |-> Len(sql_queries_)]

\* Mutation of Annotation: the elif of line 351 is an if.
AnnotationBoth(summary_) ==
  (IF summary_.verification_info # {} \/ summary_.verified_query_used
     THEN <<VerifiedBadge>>
     ELSE <<>>)
    \o (IF summary_.sql_queries # <<>> THEN <<QueryCount(summary_.sql_queries)>> ELSE <<>>)

\* Lines 344-361: additional_info, what the completed record says besides the
\* step count.
Annotation(summary_) ==
  IF summary_.verification_info # {} \/ summary_.verified_query_used
    THEN <<VerifiedBadge>>
    ELSE IF summary_.sql_queries # <<>>
           THEN <<QueryCount(summary_.sql_queries)>>
           ELSE <<>>

CompletedCall(ok, steps, note) ==
  [op |-> "chat_update", what |-> "completed", ok |-> ok, steps |-> steps, note |-> note,
   channel |-> planning_channel, ts |-> planning_message_ts]

\* Lines 337-427: the calls of the completion step and whether an exception
\* leaves it.
Finalization(summary_, upd_ok, say_ok) ==
  LET n == Len(planning_updates) IN
  IF planning_updates # <<>>
    THEN IF slack_app /\ planning_message_ts # None
           THEN LET tried == IF planning_channel # None
                               THEN <<CompletedCall(upd_ok, n, Annotation(summary_))>>
                               ELSE <<>>
                    failed == planning_channel = None \/ ~upd_ok
                IN  IF ~failed
                      THEN [calls |-> tried, raised |-> FALSE]
                      ELSE IF slack_say
                             THEN [calls |-> Append(tried,
                                              Call("say", "completed_fallback", say_ok, n)),
                                   raised |-> ~say_ok]
                             ELSE [calls |-> tried, raised |-> FALSE]
           ELSE IF slack_say
                  THEN [calls |-> <<Call("say", "completed_new", say_ok, n)>>,
                        raised |-> ~say_ok]
                  ELSE [calls |-> <<>>, raised |-> FALSE]
    ELSE [calls |-> <<>>, raised |-> FALSE]

\* Mutation of ErrorSummary: the text is the bare message.
ErrorSummaryBare(error_msg) ==
  [text |-> error_msg, sql_queries |-> <<>>, citations |-> <<>>]

\* Line 477: the value _handle_error returns.
ErrorSummary(error_msg) ==
  [text |-> <<"Error: ">> \o error_msg, sql_queries |-> <<>>, citations |-> <<>>]

\* ------------------------------------------------------------------ actions
\* __init__ (lines 9-19) with no Slack collaborator, before the first turn.
Constructed ==
  /\ planning_message_ts = "unset"
  /\ planning_channel = "unset"
  /\ planning_steps = <<>>
  /\ sql_queries = <<>>
  /\ verification_info = <<>>
  /\ verified_query_used = <<>>
  /\ pc = "idle"
  /\ transport = None
  /\ response_lines = <<>>
  /\ tools_used = <<>>
  /\ current_thinking = <<>>
  /\ planning_updates = <<>>
  /\ line_count = 0
  /\ current_event = None
  /\ summary = <<>>
  /\ parser_calls = <<>>
  /\ error = NoError
  /\ result = <<>>
  /\ calls = <<>>
  /\ inv = [i \in Threads |-> NotStarted]

Init ==
  /\ Constructed
  /\ slack_say \in BOOLEAN
  /\ slack_app \in BOOLEAN
  /\ app_channel_id = None
  /\ lines = Lines
  /\ max_lines = MaxLines

\* set_slack_say_function (lines 479-481).
set_slack_say_function(f) ==
  /\ pc = "idle"
  /\ slack_say' = f
  /\ UNCHANGED <<slack_app, app_channel_id, stored, record, locals, scenario, pc, transport,
                 summary, parser_calls, error, result, calls>>

\* The channel_id argument of set_slack_app: None, an id, or a dict holding an id.
ChannelArgs ==
  {[dict |-> FALSE, id |-> None], [dict |-> FALSE, id |-> "C1"], [dict |-> TRUE, id |-> "C1"]}

\* set_slack_app (lines 483-490).  setattr on a missing app raises and leaves
\* the channel as it was.
set_slack_app(app, channel_id) ==
  /\ pc = "idle"
  /\ slack_app' = app
  /\ app_channel_id' =
       IF (channel_id.dict \/ channel_id.id # None) /\ app
         THEN channel_id.id
         ELSE app_channel_id
  /\ UNCHANGED <<slack_say, stored, record, locals, scenario, pc, transport, summary,
                 parser_calls, error, result, calls>>

\* What slack_say returns for the "Thinking" post: a response with a ts, one
\* without, or an exception.
PostResults == {"ts", "no_ts", "raise"}

\* Mutation of ThinkingPost: nothing is posted before the stream is read.
ThinkingPostNever(posted) == <<>>

\* Mutation of ThinkingPost: the test of slack_say (line 71) is missing.
ThinkingPostUnguarded(posted) == <<Call("say", "thinking", posted # "raise", 0)>>

\* Lines 71-83: the "Thinking" post, made when the request has succeeded.
ThinkingPost(posted) ==
  IF slack_say THEN <<Call("say", "thinking", posted # "raise", 0)>> ELSE <<>>

\* Mutation of Chat: the attributes of the record are reset before the request
\* is made.
ChatResetsFirst(outcome, posted) ==
  /\ pc = "idle"
  /\ transport' = outcome
  /\ summary' = <<>>
  /\ parser_calls' = <<>>
  /\ result' = <<>>
  /\ planning_channel' = IF slack_app THEN app_channel_id ELSE None
  /\ planning_message_ts' =
       IF outcome = "ok" /\ slack_say /\ posted = "ts" THEN "ts1" ELSE None
  /\ IF outcome # "ok"
       THEN /\ pc' = "error"
            /\ error' = ErrorOf(outcome)
            /\ UNCHANGED <<locals, calls>>
       ELSE /\ calls' = ThinkingPost(posted)
            /\ IF slack_say /\ posted = "raise"
                 THEN /\ pc' = "error"
                      /\ error' = ErrorOf("SlackApiError")
                      /\ UNCHANGED locals
                 ELSE /\ pc' = "read"
                      /\ error' = NoError
                      /\ response_lines' = <<>>
                      /\ tools_used' = <<>>
                      /\ current_thinking' = <<>>
                      /\ planning_updates' = <<>>
                      /\ line_count' = 0
                      /\ current_event' = None
  /\ UNCHANGED <<config, stored, scenario>>

\* chat -> _retrieve_response, lines 56-99: the request, the "Thinking" post
\* and the initial values of the locals.
Chat(outcome, posted) ==
  /\ pc = "idle"
  /\ transport' = outcome
  /\ summary' = <<>>
  /\ parser_calls' = <<>>
  /\ result' = <<>>
  /\ IF outcome # "ok"
       THEN /\ pc' = "error"
            /\ error' = ErrorOf(outcome)
            /\ UNCHANGED <<record, locals, calls>>
       ELSE /\ planning_channel' = IF slack_app THEN app_channel_id ELSE None
            /\ planning_message_ts' = IF slack_say /\ posted = "ts" THEN "ts1" ELSE None
            /\ calls' = ThinkingPost(posted)
            /\ IF slack_say /\ posted = "raise"
                 THEN /\ pc' = "error"
                      /\ error' = ErrorOf("SlackApiError")
                      /\ UNCHANGED locals
                 ELSE /\ pc' = "read"
                      /\ error' = NoError
                      /\ response_lines' = <<>>
                      /\ tools_used' = <<>>
                      /\ current_thinking' = <<>>
                      /\ planning_updates' = <<>>
                      /\ line_count' = 0
                      /\ current_event' = None
  /\ UNCHANGED <<config, stored, scenario>>

\* Mutation of EventAfter: the event type holds for one line only.
EventAfterOneLine(line) == IF line.prefix = "event: " THEN line.body ELSE None

\* Lines 105-108: an event line sets the event type, any other line keeps it.
EventAfter(line) == IF line.prefix = "event: " THEN line.body ELSE current_event

\* Lines 100-317: one pass of the loop over response.iter_lines().
ReadLine(line, upd_ok, say_ok) ==
  /\ pc = "read"
  /\ line_count < max_lines
  /\ line_count' = line_count + 1
  /\ response_lines' = IF line = EmptyLine THEN response_lines ELSE Append(response_lines, line)
  /\ current_event' = EventAfter(line)
  /\ LET out == IF line.prefix = "data: " /\ ~IsDone(line.body)
                     /\ ~StartsWithBracket(line.body)
                  THEN OnData(line.body, upd_ok, say_ok)
                  ELSE Outcome(Accumulators, <<>>, None)
     IN  /\ tools_used' = out.tools_used
         /\ current_thinking' = out.current_thinking
         /\ planning_updates' = out.planning_updates
         /\ calls' = calls \o out.calls
         /\ IF out.exc # None
              THEN pc' = "error" /\ error' = ErrorOf(out.exc)
              ELSE /\ pc' = IF line.prefix = "data: " /\ IsDone(line.body)
                              THEN "parse"
                              ELSE "read"
                   /\ UNCHANGED error
  /\ UNCHANGED <<config, stored, record, scenario, transport, summary, parser_calls, result>>

\* Line 100: iter_lines() raises (the connection breaks while streaming).
ReadError ==
  /\ pc = "read"
  /\ pc' = "error"
  /\ error' = ErrorOf("RequestException")
  /\ UNCHANGED <<config, stored, record, locals, scenario, transport, summary, parser_calls,
                 result, calls>>

\* Line 100: the stream is exhausted.
EndOfStream ==
  /\ pc = "read"
  /\ pc' = "parse"
  /\ UNCHANGED <<config, stored, record, locals, scenario, transport, summary, parser_calls,
                 error, result, calls>>

\* Mutation of has_sse_data: any retained line counts as SSE data.
has_sse_data_any_line(ls) == ls # <<>>

\* Line 320.
has_sse_data(ls) == \E i \in 1..Len(ls) : ls[i].prefix = "data: "

\* Lines 319-334: parse the collected lines and store the turn's data.
Parse ==
  /\ pc = "parse"
  /\ LET sse == has_sse_data(response_lines)
         parsed_response == IF sse
                              THEN parse_sse_response(response_lines)
                              ELSE parse_json_response(response_lines)
         s == extract_summary(parsed_response)
     IN  /\ parser_calls' = Append(parser_calls,
                              [parser |-> IF sse THEN "parse_sse_response"
                                                 ELSE "parse_json_response",
                               arg |-> response_lines])
         /\ summary' = <<s>>
         /\ planning_steps' = <<planning_updates>>
         /\ sql_queries' = <<s.sql_queries>>
         /\ verification_info' = <<s.verification_info>>
         /\ verified_query_used' = <<s.verified_query_used>>
  /\ pc' = "finalize"
  /\ UNCHANGED <<config, record, locals, scenario, transport, error, result, calls>>

\* Lines 336-444: complete the planning message and return the summary.
Finalize(upd_ok, say_ok) ==
  /\ pc = "finalize"
  /\ LET out == Finalization(summary[1], upd_ok, say_ok) IN
     /\ calls' = calls \o out.calls
     /\ IF out.raised
          THEN pc' = "error" /\ error' = ErrorOf("SlackApiError") /\ UNCHANGED result
          ELSE pc' = "returned" /\ result' = summary /\ UNCHANGED error
  /\ UNCHANGED <<config, stored, record, locals, scenario, transport, summary, parser_calls>>

\* Mutation of HandleError: the error handler clears the stored turn data.
HandleErrorClears(say_ok) ==
  /\ pc = "error"
  /\ calls' = IF slack_say
                THEN Append(calls, Call("say", "error", say_ok, Len(planning_updates)))
                ELSE calls
  /\ IF slack_say /\ ~say_ok
       THEN pc' = "raised" /\ UNCHANGED result
       ELSE pc' = "returned" /\ result' = <<[text |-> <<"Error: ">> \o error.error_msg,
                                             sql_queries |-> <<>>, citations |-> <<>>]>>
  /\ planning_steps' = << <<>> >>
  /\ sql_queries' = << <<>> >>
  /\ verification_info' = << {} >>
  /\ verified_query_used' = <<FALSE>>
  /\ UNCHANGED <<config, record, locals, scenario, transport, summary, parser_calls, error>>

\* _handle_error (lines 465-477) called from an except clause of lines 446-463:
\* its post is not guarded, so a failing slack_say leaves chat() by an exception.
HandleError(say_ok) ==
  /\ pc = "error"
  /\ calls' = IF slack_say
                THEN Append(calls, Call("say", "error", say_ok, Len(planning_updates)))
                ELSE calls
  /\ IF slack_say /\ ~say_ok
       THEN pc' = "raised" /\ UNCHANGED result
       ELSE pc' = "returned" /\ result' = <<ErrorSummary(error.error_msg)>>
  /\ UNCHANGED <<config, stored, record, locals, scenario, transport, summary, parser_calls,
                 error>>

Transports == {"ok", "Timeout", "RequestException"}

Next ==
  \/ \E f \in BOOLEAN : set_slack_say_function(f)
  \/ \E channel_id \in ChannelArgs : set_slack_app(TRUE, channel_id)
  \/ \E outcome \in Transports, posted \in PostResults : Chat(outcome, posted)
  \/ \E line \in lines, upd_ok \in BOOLEAN, say_ok \in BOOLEAN : ReadLine(line, upd_ok, say_ok)
  \/ ReadError
  \/ EndOfStream
  \/ Parse
  \/ \E upd_ok \in BOOLEAN, say_ok \in BOOLEAN : Finalize(upd_ok, say_ok)
  \/ \E say_ok \in BOOLEAN : HandleError(say_ok)

Spec == Init /\ [][Next]_vars

\* The same client reading the other streams.
InitDelta ==
  /\ Constructed
  /\ slack_say \in BOOLEAN
  /\ slack_app \in BOOLEAN
  /\ app_channel_id = None
  /\ lines = DeltaLines
  /\ max_lines = MaxLines

SpecDelta == InitDelta /\ [][Next]_vars

InitSecondary ==
  /\ Constructed
  /\ slack_say \in BOOLEAN
  /\ slack_app \in BOOLEAN
  /\ app_channel_id = None
  /\ lines = SecondaryLines
  /\ max_lines = MaxSecondary

SpecSecondary == InitSecondary /\ [][Next]_vars

InitMixed ==
  /\ Constructed
  /\ slack_say \in BOOLEAN
  /\ slack_app \in BOOLEAN
  /\ app_channel_id = None
  /\ lines = MixedLines
  /\ max_lines = MaxMixed

SpecMixed == InitMixed /\ [][Next]_vars

InitSummary ==
  /\ Constructed
  /\ slack_say \in BOOLEAN
  /\ slack_app \in BOOLEAN
  /\ app_channel_id = None
  /\ lines = SummaryLines
  /\ max_lines = MaxLines

SpecSummary == InitSummary /\ [][Next]_vars

\* What a turn that read one secondary status message and completed its
\* record (ts0) left on the client.
PreviousSteps == <<"Running">>

PreviousTs == "ts0"

\* The client after that turn, before the next call of chat(): the attributes
\* hold its values, the locals of _retrieve_response are gone.
InitNextTurn ==
  /\ slack_say = TRUE
  /\ slack_app = TRUE
  /\ app_channel_id = "C1"
  /\ planning_message_ts = PreviousTs
  /\ planning_channel = "C1"
  /\ planning_steps = <<PreviousSteps>>
  /\ sql_queries = << <<>> >>
  /\ verification_info = << {} >>
  /\ verified_query_used = <<FALSE>>
  /\ pc = "idle"
  /\ transport = None
  /\ response_lines = <<>>
  /\ tools_used = <<>>
  /\ current_thinking = <<>>
  /\ planning_updates = <<>>
  /\ line_count = 0
  /\ current_event = None
  /\ summary = <<>>
  /\ parser_calls = <<>>
  /\ error = NoError
  /\ result = <<>>
  /\ calls = <<>>
  /\ inv = [i \in Threads |-> NotStarted]
  /\ lines = SecondaryLines
  /\ max_lines = MaxLines

SpecNextTurn == InitNextTurn /\ [][Next]_vars

InitContext ==
  /\ Constructed
  /\ slack_say \in BOOLEAN
  /\ slack_app \in BOOLEAN
  /\ app_channel_id = None
  /\ lines = ContextLines
  /\ max_lines = MaxLines

SpecContext == InitContext /\ [][Next]_vars

\* ---------------------------------------------- two invocations on one object
\* chat() called from two threads on the same CortexChat object.  The locals
\* of _retrieve_response are per invocation (inv[i]); planning_message_ts,
\* planning_channel and planning_steps are attributes of the object.  Each
\* stream is response.status messages; slack_say does not raise.

\* The ts Slack gives to the "Thinking" message of invocation i.
TsOf(i) == IF i = 1 THEN "ts1" ELSE "ts2"

\* The status message the stream of invocation i carries.
MessageOf(i) == IF i = 1 THEN "Searching" ELSE "Charting"

\* Lines 56-99 in thread i: the request succeeds, the attributes of the record
\* are reset and the "Thinking" message is posted.
ThreadChat(i, posted) ==
  /\ inv[i].pc = "idle"
  /\ planning_channel' = IF slack_app THEN app_channel_id ELSE None
  /\ planning_message_ts' = IF slack_say /\ posted = "ts" THEN TsOf(i) ELSE None
  /\ inv' = [inv EXCEPT ![i] = [pc |-> "read",
                                 planning_updates |-> <<>>,
                                 created |-> IF slack_say /\ posted = "ts" THEN TsOf(i) ELSE None,
                                 calls |-> ThinkingPost(posted)]]
  /\ UNCHANGED <<config, stored, locals, lines, max_lines, pc, transport, summary,
                 parser_calls, error, result, calls>>

\* Lines 100-162 in thread i: a response.status message is appended to the
\* steps of the invocation and the record named by the attributes is refreshed.
ThreadReadStatus(i, upd_ok) ==
  /\ inv[i].pc = "read"
  /\ Len(inv[i].planning_updates) < MaxOwnSteps
  /\ LET steps == Append(inv[i].planning_updates, MessageOf(i)) IN
     inv' = [inv EXCEPT ![i].planning_updates = steps,
                        ![i].calls = @ \o RefreshPrimary(steps, upd_ok)]
  /\ UNCHANGED <<config, stored, record, locals, lines, max_lines, pc, transport, summary,
                 parser_calls, error, result, calls>>

\* Lines 319-334 in thread i: the stream has ended and the steps of the
\* invocation are stored on the object.
ThreadStore(i) ==
  /\ inv[i].pc = "read"
  /\ planning_steps' = <<inv[i].planning_updates>>
  /\ sql_queries' = << <<>> >>
  /\ verification_info' = << {} >>
  /\ verified_query_used' = <<FALSE>>
  /\ inv' = [inv EXCEPT ![i].pc = "finalize"]
  /\ UNCHANGED <<config, record, locals, lines, max_lines, pc, transport, summary,
                 parser_calls, error, result, calls>>

\* Lines 336-444 in thread i: the completion of the record named by the
\* attributes, or the message posted instead.
ThreadFinalize(i, upd_ok) ==
  /\ inv[i].pc = "finalize"
  /\ LET mine == inv[i].planning_updates
         n == Len(mine)
         tried == IF planning_channel # None
                    THEN <<CompletedCall(upd_ok, n, <<>>)>>
                    ELSE <<>>
         failed == planning_channel = None \/ ~upd_ok
         out == IF mine = <<>>
                  THEN <<>>
                  ELSE IF slack_app /\ planning_message_ts # None
                         THEN IF failed /\ slack_say
                                THEN Append(tried, Call("say", "completed_fallback", TRUE, n))
                                ELSE tried
                         ELSE IF slack_say
                                THEN <<Call("say", "completed_new", TRUE, n)>>
                                ELSE <<>>
     IN  inv' = [inv EXCEPT ![i].pc = "returned", ![i].calls = @ \o out]
  /\ UNCHANGED <<config, stored, record, locals, lines, max_lines, pc, transport, summary,
                 parser_calls, error, result, calls>>

NextThreads ==
  \E i \in Threads :
    \/ \E posted \in {"ts", "no_ts"} : ThreadChat(i, posted)
    \/ \E upd_ok \in BOOLEAN : ThreadReadStatus(i, upd_ok)
    \/ ThreadStore(i)
    \/ \E upd_ok \in BOOLEAN : ThreadFinalize(i, upd_ok)

\* The object was given slack_say and an app with a channel id before the
\* threads call chat().
InitThreads ==
  /\ Constructed
  /\ slack_say = TRUE
  /\ slack_app = TRUE
  /\ app_channel_id \in {None, "C1"}
  /\ lines = {}
  /\ max_lines = 0

SpecThreads == InitThreads /\ [][NextThreads]_vars

\* ======================================================================
\* Properties
\* ======================================================================
CountCalls(what) == Cardinality({i \in 1..Len(calls) : calls[i].what = what})

\* The calls of calls' that the step added.
NewCalls == {i \in 1..Len(calls') : i > Len(calls)}

\* A data: [DONE] line has been read in the turn.
DoneSeen == Member(DataLine(DoneBody), response_lines)

\* chat() returned the parser's summary of the turn.
ReturnedSummary == pc = "returned" /\ summary # <<>> /\ result = summary

\* C1: once a line data: [DONE] has been read, no step of the turn reads or
\* retains another line, appends a planning step, adds a tool, changes the
\* event type or refreshes the record: the turn goes on to the parser and the
\* completion step (or to the error handler), and the only calls left are
\* those of the completion step and of the error handler.
C1_DoneEndsReading ==
  [][DoneSeen =>
       /\ UNCHANGED locals
       /\ pc' \in {"parse", "finalize", "error", "returned", "raised"}
       /\ Len(calls') >= Len(calls)
       /\ \A i \in 1..Len(calls) : calls'[i] = calls[i]
       /\ \A i \in NewCalls :
            calls'[i].what \in {"completed", "completed_fallback", "completed_new", "error"}
    ]_vars

\* C1 witness: a turn returned after [DONE] although the server had more to send.
C1_Witness ==
  /\ ReturnedSummary
  /\ DoneSeen
  /\ Len(response_lines) >= 2
  /\ line_count < max_lines

\* C2: chat() never leaves by an exception.
C2_NeverRaises == pc # "raised"

\* C3: after a transport timeout the turn attempts exactly one error post if
\* slack_say is set and no call at all otherwise, and the Summary it returns
\* has a text starting with "Error: " and empty sql_queries and citations.
C3_TimeoutSummary ==
  (transport = "Timeout" /\ pc \in {"returned", "raised"}) =>
    /\ CountCalls("error") = (IF slack_say THEN 1 ELSE 0)
    /\ Len(calls) = CountCalls("error")
    /\ pc = "returned" =>
         /\ result # <<>>
         /\ result[1].text # <<>>
         /\ result[1].text[1] = "Error: "
         /\ result[1].sql_queries = <<>>
         /\ result[1].citations = <<>>

\* C3 witness: a timed-out turn that posted its error and returned.
C3_Witness ==
  /\ transport = "Timeout"
  /\ pc = "returned"
  /\ slack_say
  /\ calls = <<Call("say", "error", TRUE, 0)>>

\* C4: a turn whose request succeeded and whose stream raised nothing returns
\* the parser's summary of the stream, whether or not calls on the Slack
\* surface failed.
C4_SinkFailuresAbsorbed ==
  (/\ pc \in {"returned", "raised"}
   /\ transport = "ok"
   /\ error \in {NoError, ErrorOf("SlackApiError")}) => ReturnedSummary

\* The step reads a data line whose payload does not decode.
ReadsMalformed ==
  /\ pc = "read"
  /\ response_lines' = Append(response_lines, DataLine(MalformedBody))

\* C5: reading a data line whose payload is not JSON retains the line and
\* changes nothing else: the turn stays in the loop, planning steps, tools,
\* text and event type are as before and no call is made, so the lines that
\* follow are processed from the state they would have met without it.
C5_MalformedIsDropped ==
  [][ReadsMalformed =>
       /\ line_count' = line_count + 1
       /\ UNCHANGED <<tools_used, current_thinking, planning_updates, current_event>>
       /\ UNCHANGED <<config, stored, record, scenario, pc, transport, summary,
                      parser_calls, error, result, calls>>
    ]_vars

\* C5 witness: a line after the malformed one produced its planning step and
\* the turn returned the summary.
C5_Witness ==
  /\ ReturnedSummary
  /\ Len(response_lines) >= 2
  /\ response_lines[1] = DataLine(MalformedBody)
  /\ planning_updates # <<>>

\* The content items of the message deltas among the lines, in order.
RECURSIVE ItemsRead(_)
ItemsRead(ls) ==
  IF ls = <<>>
    THEN <<>>
    ELSE LET loaded == json_loads(Head(ls).body)
             isDelta == /\ Head(ls).prefix = "data: "
                        /\ loaded.ok
                        /\ loaded.value.t = "object"
                        /\ Get(loaded.value.v, "object", None) = "message.delta"
         IN  (IF isDelta THEN loaded.value.v.delta.content ELSE <<>>) \o ItemsRead(Tail(ls))

\* The tool name of every tool_use item, one entry per invocation.
RECURSIVE Invocations(_)
Invocations(items) ==
  IF items = <<>>
    THEN <<>>
    ELSE (IF Get(Head(items), "type", None) = "tool_use"
            THEN <<Get(Get(Head(items), "tool_use", <<>>), "name", "unknown")>>
            ELSE <<>>) \o Invocations(Tail(items))

\* The distinct elements of a sequence in first-seen order.
RECURSIVE FirstSeen(_)
FirstSeen(s) ==
  IF s = <<>>
    THEN <<>>
    ELSE LET front == FirstSeen(SubSeq(s, 1, Len(s) - 1)) IN
         IF Member(Last(s), front) THEN front ELSE Append(front, Last(s))

\* C6: in a turn of message deltas, tools_used holds each tool name invoked so
\* far exactly once, in first-seen order, and the planning steps are exactly
\* one "Using {name}" per distinct name, in the same order, however often the
\* tool is invoked.
C6_ToolsOnce ==
  LET names == FirstSeen(Invocations(ItemsRead(response_lines))) IN
  /\ tools_used = names
  /\ planning_updates = [i \in 1..Len(names) |-> UsingStep(names[i])]

\* C6 witness: three invocations of two tools left two tools and two steps.
C6_Witness ==
  /\ ReturnedSummary
  /\ Len(Invocations(ItemsRead(response_lines))) >= 3
  /\ tools_used = <<"search", "analyst">>
  /\ planning_steps = << <<"Using search", "Using analyst">> >>

\* The step reads line l, a data line whose decoded object has a message
\* field, while the event type is response.status.
ReadsPrimaryStatus(l) ==
  /\ pc = "read"
  /\ current_event = "response.status"
  /\ l.prefix = "data: "
  /\ json_loads(l.body).ok
  /\ json_loads(l.body).value.t = "object"
  /\ "message" \in DOMAIN json_loads(l.body).value.v
  /\ response_lines' = Append(response_lines, l)

StatusExample == <<EventLine("response.status"), DataLine(MessageBody), DataLine(DoneBody)>>

\* C7: a data line with a message field read under event response.status
\* appends exactly that message to the end of the planning steps and leaves
\* tools, text, event type, the stored data and the record as they were (the
\* only call it may make is the refresh of the record); and a turn that read
\* [event: response.status, data: {message: Searching}, data: [DONE]] stores
\* the planning steps ["Searching"].
C7_StatusAppendsMessage ==
  /\ [][\A l \in lines :
          ReadsPrimaryStatus(l) =>
            /\ planning_updates' = Append(planning_updates, json_loads(l.body).value.v.message)
            /\ UNCHANGED <<tools_used, current_thinking, current_event, stored, record>>
            /\ pc' = "read"
            /\ \A i \in 1..Len(calls) : calls'[i] = calls[i]
            /\ Len(calls') \in {Len(calls), Len(calls) + 1}
            /\ \A i \in NewCalls : calls'[i].what = "refresh_primary"
       ]_vars
  /\ []((pc \in {"finalize", "returned"} /\ response_lines = StatusExample) =>
          planning_steps = << <<"Searching">> >>)

\* C7 witness: the example turn returned.
C7_Witness ==
  /\ ReturnedSummary
  /\ response_lines = StatusExample
  /\ planning_steps = << <<"Searching">> >>

\* The record of the turn can be updated: app, message ts and channel are set.
LiveRecord == slack_app /\ planning_message_ts = "ts1" /\ planning_channel = "C1"

IsSecondaryRefresh(c) == c.what = "refresh_secondary"

\* C8: in a turn with a live record whose steps all come from secondary status
\* objects, the k-th refresh of the record is made at step 2k, so after N
\* steps there have been N \div 2 refreshes; and a turn that returns its
\* summary after at least one step has made exactly one completion update and
\* no new completion message.
C8_SecondaryEverySecond ==
  LiveRecord =>
    LET r == SelectSeq(calls, IsSecondaryRefresh) IN
    /\ Len(r) = Len(planning_updates) \div 2
    /\ \A k \in 1..Len(r) : r[k].steps = 2 * k /\ r[k].op = "chat_update"
    /\ (ReturnedSummary /\ planning_updates # <<>>) =>
         /\ CountCalls("completed") = 1
         /\ CountCalls("completed_new") = 0

\* C8 witness: five secondary updates, refreshes at updates 2 and 4, one
\* completion update.
C8_Witness ==
  /\ ReturnedSummary
  /\ LiveRecord
  /\ Len(planning_updates) = 5
  /\ CountCalls("refresh_secondary") = 2
  /\ CountCalls("completed") = 1
  /\ \A i \in 1..Len(calls) : calls[i].ok

\* The completions of the turn: a successful completion update of the record,
\* or a completion message posted instead of it.
Finalizations ==
  Cardinality({i \in 1..Len(calls) :
                 \/ calls[i].what = "completed" /\ calls[i].ok
                 \/ calls[i].what \in {"completed_new", "completed_fallback"}})

\* C9: a turn with slack_say set that returns the parser's summary has
\* performed exactly one completion.
C9_ExactlyOneFinalization == (ReturnedSummary /\ slack_say) => Finalizations = 1

\* C10 as claimed: the "Thinking" post is made only once a step-producing
\* event has been read.
C10_ThinkingIsLazy == CountCalls("thinking") > 0 => planning_updates # <<>>

\* C10 as amended: the "Thinking" post is attempted exactly once per turn, as
\* the first call and before any line is read, when the request succeeded and
\* slack_say is set, and never otherwise.
C10_ThinkingIsEager ==
  pc # "idle" =>
    /\ CountCalls("thinking") = (IF transport = "ok" /\ slack_say THEN 1 ELSE 0)
    /\ CountCalls("thinking") = 1 => calls[1] = Call("say", "thinking", calls[1].ok, 0)

\* C10 witness: a turn that read lines without any step posted "Thinking".
C10_Witness ==
  /\ ReturnedSummary
  /\ line_count >= 1
  /\ planning_updates = <<>>
  /\ CountCalls("thinking") = 1

\* The calls that try to update the existing record and fail.
FailedUpdates == {i \in 1..Len(calls) : calls[i].op = "chat_update" /\ ~calls[i].ok}

\* C11: in a turn with slack_say set, every failed update of the record
\* (primary refresh, secondary refresh or completion) is directly followed by
\* one newly posted message standing in for it.
C11_FallbackPerFailedUpdate ==
  slack_say =>
    \A i \in FailedUpdates :
      /\ i < Len(calls)
      /\ calls[i + 1].op = "say"
      /\ calls[i + 1].what \in {"progress_fallback", "completed_fallback"}

\* C12: with a live record, a data line with a message field read under event
\* response.status makes exactly one new call, whatever the number of steps:
\* a chat_update of that record (its channel and ts) whose text shows the
\* step just appended.
C12_PrimaryAlwaysRefreshes ==
  [][\A l \in lines :
       (ReadsPrimaryStatus(l) /\ LiveRecord) =>
         /\ Len(calls') = Len(calls) + 1
         /\ \A i \in 1..Len(calls) : calls'[i] = calls[i]
         /\ LET c == calls'[Len(calls')] IN
            /\ c.op = "chat_update"
            /\ c.what = "refresh_primary"
            /\ c.channel = "C1"
            /\ c.ts = "ts1"
            /\ c.steps = Len(planning_updates) + 1
            /\ c.latest_step = json_loads(l.body).value.v.message
    ]_vars

\* C12 witness: two status messages read in a row with a live record, the
\* record refreshed at step 1 and at step 2.
C12_Witness ==
  /\ LiveRecord
  /\ response_lines =
       <<EventLine("response.status"), DataLine(MessageBody), DataLine(MessageBody)>>
  /\ CountCalls("refresh_primary") = 2
  /\ calls[2].steps = 1
  /\ calls[3].steps = 2

\* C13: a client with neither slack_say nor slack_app makes no call at all,
\* neither a post nor an update, in any state of the turn, whether the turn
\* returns the summary or goes through the error handler.
C13_NoSinkNoCalls == (~slack_say /\ ~slack_app) => calls = <<>>

\* C13 witness: a client without sinks has read planning steps and returned
\* the summary through the completion step.
C13_Witness ==
  /\ ~slack_say
  /\ ~slack_app
  /\ ReturnedSummary
  /\ planning_updates # <<>>

\* The parser has run: the turn got past the end of the stream.
Parsed == summary # <<>>

\* C14: no parser is invoked before the stream has ended, and a turn that got
\* past the end of the stream has invoked exactly one parser, once:
\* parse_sse_response when some retained line starts with "data: ", otherwise
\* parse_json_response, on the retained lines in order.
C14_ParserDispatch ==
  /\ pc \in {"finalize"} => Parsed
  /\ ~Parsed => parser_calls = <<>>
  /\ Parsed =>
       parser_calls =
         <<[parser |-> IF \E i \in 1..Len(response_lines) :
                            response_lines[i].prefix = "data: "
                         THEN "parse_sse_response"
                         ELSE "parse_json_response",
            arg |-> response_lines]>>

\* C14 witness: a stream that is one JSON document, without any data line,
\* went to parse_json_response and the summary was returned.
C14_Witness ==
  /\ ReturnedSummary
  /\ response_lines = <<PlainLine(DocumentBody)>>
  /\ parser_calls = <<[parser |-> "parse_json_response", arg |-> response_lines]>>

\* C15: once the stored verified_query_used flag of a turn is true, no step
\* of the turn (the completion step, the error handler after a failed
\* completion post) sets it to another value.
C15_VerifiedStaysTrue ==
  [][verified_query_used = <<TRUE>> => verified_query_used' = <<TRUE>>]_vars

\* C15 witness: a turn that read a tool result of a verified query stored the
\* flag as true, then failed its completion post and returned through the
\* error handler with the flag still true.
C15_Witness ==
  /\ Member(DataLine(ResultBody), response_lines)
  /\ verified_query_used = <<TRUE>>
  /\ pc = "returned"
  /\ result = <<ErrorSummary(ErrorOf("SlackApiError").error_msg)>>

\* The chat_update calls invocation i has made.
UpdatesBy(i) ==
  {k \in 1..Len(inv[i].calls) : inv[i].calls[k].op = "chat_update"}

\* C16: when two invocations on the same object interleave, every update
\* (refresh or completion) an invocation makes addresses the record that
\* invocation created, and between storing its planning steps and returning
\* an invocation finds its own steps stored.
C16_InvocationsIsolated ==
  \A i \in Threads :
    /\ \A k \in UpdatesBy(i) : inv[i].calls[k].ts = inv[i].created
    /\ inv[i].pc = "finalize" => planning_steps = <<inv[i].planning_updates>>

\* The planning steps that secondary status objects appended (mixed scenario:
\* the other steps are tool uses).
SecondarySteps == {j \in 1..Len(planning_updates) : planning_updates[j] = "Running"}

\* C17 as claimed: with a live record, between any two refreshes triggered by
\* secondary status updates there is a secondary status update that
\* triggered none.
C17_EverySecondOfItsOwn ==
  LiveRecord =>
    LET r == SelectSeq(calls, IsSecondaryRefresh) IN
    \A k \in 1..(Len(r) - 1) :
      \E j \in SecondarySteps : r[k].steps < j /\ j < r[k + 1].steps

\* C17 as amended: with a live record, a secondary status update triggers a
\* refresh exactly when the number of planning steps of every origin is even
\* after it, so the refreshes are made at the even-numbered steps that are
\* secondary status updates, one each and in order.
C17_EvenTotalStepCount ==
  LiveRecord =>
    LET r == SelectSeq(calls, IsSecondaryRefresh) IN
    /\ {r[k].steps : k \in 1..Len(r)} = {j \in SecondarySteps : j % 2 = 0}
    /\ \A k \in 1..(Len(r) - 1) : r[k].steps < r[k + 1].steps

\* C17 witness: tool use, status, tool use, status: both status updates
\* refreshed the record, at steps 2 and 4.
C17_Witness ==
  /\ LiveRecord
  /\ planning_updates = <<"Using search", "Running", "Using analyst", "Running">>
  /\ LET r == SelectSeq(calls, IsSecondaryRefresh) IN
     Len(r) = 2 /\ r[1].steps = 2 /\ r[2].steps = 4

\* The step reads data line l while the event type is response.status or
\* response.
ReadsUnderEvent(l) ==
  /\ pc = "read"
  /\ current_event \in {"response.status", "response"}
  /\ l.prefix = "data: "
  /\ response_lines' = Append(response_lines, l)

\* The payload of l decodes to an object with a message field.
HasMessage(l) ==
  /\ json_loads(l.body).ok
  /\ json_loads(l.body).value.t = "object"
  /\ "message" \in DOMAIN json_loads(l.body).value.v

\* C18: a data line read while the event type is response.status or response
\* is never handled by its shape: tools and text stay as they were, no
\* secondary refresh or progress message is made, and the planning steps grow
\* only by the message field of a payload read under response.status; a
\* payload without message (a message delta, a status object) appends nothing.
C18_EventBeforeShape ==
  [][\A l \in lines :
       ReadsUnderEvent(l) =>
         /\ UNCHANGED <<tools_used, current_thinking>>
         /\ \A i \in NewCalls : calls'[i].what = "refresh_primary"
         /\ IF current_event = "response.status" /\ HasMessage(l)
              THEN planning_updates' =
                     Append(planning_updates, json_loads(l.body).value.v.message)
              ELSE UNCHANGED planning_updates
    ]_vars

\* C18 witness: a status object and a tool-use delta were read under event
\* response.status and left no step and no tool.
C18_Witness ==
  /\ pc = "read"
  /\ response_lines =
       <<EventLine("response.status"), DataLine(StatusBody), DataLine(ToolABody)>>
  /\ planning_updates = <<>>
  /\ tools_used = <<>>

\* The body of the last event line among ls, None when there is none.
LastEvent(ls) ==
  LET E == {i \in 1..Len(ls) : ls[i].prefix = "event: "} IN
  IF E = {} THEN None ELSE ls[CHOOSE i \in E : \A j \in E : j <= i].body

\* C19: the event type is at every moment the value of the last event line
\* read in the turn, None before the first one and when the turn starts; a
\* data line is handled under that value however many data lines came since
\* (a message payload appends its step exactly when that value is
\* response.status); and reading an event line only sets the event type: no
\* step, no tool, no text, no call.
C19_EventContextPersists ==
  /\ [](current_event = LastEvent(response_lines))
  /\ []((pc = "read" /\ line_count = 0) => current_event = None)
  /\ [][\A l \in lines :
          (pc = "read" /\ response_lines' = Append(response_lines, l)) =>
            /\ l.prefix = "event: " =>
                 /\ current_event' = l.body
                 /\ UNCHANGED <<planning_updates, tools_used, current_thinking, calls,
                                stored, record>>
                 /\ pc' = "read"
            /\ l = DataLine(MessageBody) =>
                 /\ UNCHANGED current_event
                 /\ planning_updates' =
                      IF LastEvent(response_lines) = "response.status"
                        THEN Append(planning_updates, "Searching")
                        ELSE planning_updates
       ]_vars

\* C19 witness: two message payloads after one event line were both handled
\* under response.status.
C19_Witness ==
  /\ response_lines =
       <<EventLine("response.status"), DataLine(MessageBody), DataLine(MessageBody)>>
  /\ current_event = "response.status"
  /\ planning_updates = <<"Searching", "Searching">>

\* The step reads data line l, whose payload is an object without an object
\* field and with a status field, outside the response.status and response
\* event types.
ReadsSecondaryStatus(l) ==
  /\ pc = "read"
  /\ current_event \notin {"response.status", "response"}
  /\ l.prefix = "data: "
  /\ json_loads(l.body).ok
  /\ json_loads(l.body).value.t = "object"
  /\ "object" \notin DOMAIN json_loads(l.body).value.v
  /\ "status" \in DOMAIN json_loads(l.body).value.v
  /\ response_lines' = Append(response_lines, l)

StatusOf(l) == Get(json_loads(l.body).value.v, "status", "")

StatusMessageOf(l) == Get(json_loads(l.body).value.v, "status_message", "")

\* C20 as claimed: a secondary status object whose status is not
\* REASONING_AGENT_STOP appends its status_message whenever that message is
\* not empty, whatever the status.
C20_AnyStatusAppends ==
  [][\A l \in lines :
       (/\ ReadsSecondaryStatus(l)
        /\ StatusOf(l) # "REASONING_AGENT_STOP"
        /\ StatusMessageOf(l) # "") =>
         planning_updates' = Append(planning_updates, StatusMessageOf(l))
    ]_vars

\* C20 as amended: a secondary status object appends its status_message
\* exactly when its status is not empty and not REASONING_AGENT_STOP and the
\* message is not empty; otherwise the planning steps stay as they were.
C20_NonEmptyStatusAppends ==
  [][\A l \in lines :
       ReadsSecondaryStatus(l) =>
         planning_updates' =
           IF /\ StatusOf(l) # ""
              /\ StatusOf(l) # "REASONING_AGENT_STOP"
              /\ StatusMessageOf(l) # ""
             THEN Append(planning_updates, StatusMessageOf(l))
             ELSE planning_updates
    ]_vars

\* C20 witness: a status object with empty status and message "Orphan" was
\* read and dropped, the next one with status EXECUTING was appended.
C20_Witness ==
  /\ pc = "read"
  /\ response_lines = <<DataLine(BlankStatusBody), DataLine(StatusBody)>>
  /\ planning_updates = <<"Running">>

\* C21: reading a secondary status object whose status is
\* REASONING_AGENT_STOP leaves the planning steps, the tools, the text and the
\* call log as they were (no step, no refresh, no fallback post), whatever its
\* status_message, and the loop goes on.
C21_StopIsSilent ==
  [][\A l \in lines :
       (ReadsSecondaryStatus(l) /\ StatusOf(l) = "REASONING_AGENT_STOP") =>
         /\ UNCHANGED <<planning_updates, tools_used, current_thinking, calls>>
         /\ pc' = "read"
    ]_vars

\* C21 witness: with a live record and one step logged, a STOP object with
\* message "Stopping" was read: still one step and no refresh, where a second
\* step would have refreshed the record.
C21_Witness ==
  /\ pc = "read"
  /\ LiveRecord
  /\ response_lines = <<DataLine(StatusBody), DataLine(StopBody)>>
  /\ StatusMessageOf(DataLine(StopBody)) = "Stopping"
  /\ planning_updates = <<"Running">>
  /\ CountCalls("refresh_secondary") = 0

\* The step reads data line l, whose payload decodes as JSON and is no status
\* message, no message delta and no secondary status object: a value that is
\* not an object, or an object without object and status fields read outside
\* the response.status and response event types.
ReadsUnknown(l) ==
  /\ pc = "read"
  /\ l.prefix = "data: "
  /\ ~StartsWithBracket(l.body)
  /\ json_loads(l.body).ok
  /\ \/ json_loads(l.body).value.t # "object"
     \/ /\ current_event \notin {"response.status", "response"}
        /\ json_loads(l.body).value.t = "object"
        /\ "object" \notin DOMAIN json_loads(l.body).value.v
        /\ "status" \notin DOMAIN json_loads(l.body).value.v
  /\ response_lines' = Append(response_lines, l)

\* C22: reading a payload that decodes but matches no classification rule,
\* a non-object value included, changes no accumulated state, makes no call
\* and lets the loop go on with the next line.
C22_UnknownIsSkipped ==
  [][\A l \in lines :
       ReadsUnknown(l) =>
         /\ UNCHANGED <<planning_updates, tools_used, current_thinking, calls>>
         /\ pc' = "read"
    ]_vars

\* C23: every completion update of the record states the number of planning
\* steps of the turn and at most one annotation: the verified badge exactly
\* when the summary has verification_info or verified_query_used, the count
\* of SQL queries exactly when it has neither and sql_queries is not empty.
C23_AnnotationPrecedence ==
  \A i \in 1..Len(calls) :
    calls[i].what = "completed" =>
      LET s == summary[1]
          note == calls[i].note
          verified == s.verification_info # {} \/ s.verified_query_used
      IN  /\ calls[i].steps = Len(planning_updates)
          /\ Len(note) <= 1
          /\ Member(VerifiedBadge, note) <=> verified
          /\ (\E k \in 1..Len(note) : note[k].info = "queries")
               <=> (~verified /\ s.sql_queries # <<>>)
          /\ \A k \in 1..Len(note) :
               note[k].info = "queries" => note[k].n = Len(s.sql_queries)

\* C23 witness: a turn with one step and two unverified queries completed its
\* record with the count 2 and no badge.
C23_Witness ==
  /\ ReturnedSummary
  /\ response_lines = <<DataLine(ToolABody), DataLine(SqlResultBody), DataLine(SqlResultBody)>>
  /\ \E i \in 1..Len(calls) :
       /\ calls[i].what = "completed"
       /\ calls[i].steps = 1
       /\ calls[i].note = <<[info |-> "queries", n |-> 2]>>

\* The messages posted in place of an update of the record.
FallbackPosts ==
  {i \in 1..Len(calls) : calls[i].what \in {"progress_fallback", "completed_fallback"}}

\* The completion step ran and could not address the record for lack of a
\* channel (line 393, "No channel available"): an update that failed before
\* any call was made.
NoChannelFailure ==
  /\ Parsed
  /\ pc # "finalize"
  /\ planning_updates # <<>>
  /\ slack_app
  /\ planning_message_ts = "ts1"
  /\ planning_channel = None

\* C24: in every turn the fallback posts are no more than the failed updates
\* of the record (failed chat_update calls and a completion without channel);
\* every fallback post directly follows the failed update it stands for, so
\* no failed update gets two; and after a fallback post that failed no
\* fallback is posted again: the only call that can follow is the one error
\* message of the handler.
C24_RetryBudget ==
  /\ Cardinality(FallbackPosts) <=
       Cardinality(FailedUpdates) + (IF NoChannelFailure THEN 1 ELSE 0)
  /\ \A i \in FallbackPosts :
       \/ i > 1 /\ (i - 1) \in FailedUpdates
       \/ calls[i].what = "completed_fallback" /\ NoChannelFailure
  /\ \A i \in FallbackPosts :
       ~calls[i].ok =>
         /\ Len(calls) <= i + 1
         /\ \A j \in (i + 1)..Len(calls) : calls[j].what = "error"

\* C24 witness: a refresh failed, its fallback post failed too, and the turn
\* ended in the error handler without another fallback.
C24_Witness ==
  /\ pc \in {"returned", "raised"}
  /\ Cardinality(FailedUpdates) = 1
  /\ Cardinality(FallbackPosts) = 1
  /\ \E i \in FallbackPosts : ~calls[i].ok /\ calls[i].what = "progress_fallback"
  /\ Last(calls).what = "error"

\* s is an initial part of t.
IsPrefix(s, t) == Len(s) <= Len(t) /\ \A i \in 1..Len(s) : t[i] = s[i]

\* What line l can append at most: one step per content item of a message
\* delta, one step for any other line.
StepBudget(l) ==
  IF ItemsRead(<<l>>) # <<>> THEN Len(ItemsRead(<<l>>)) ELSE 1

\* C25: once the turn has started, every step leaves the planning steps an
\* extension of what they were (nothing removed, reordered or rewritten); a
\* line appends at most one step per content item or status it carries; and
\* from the end of the stream on the list stored on the client is the log, in
\* insertion order.
C25_AppendOnlyLog ==
  /\ [][pc # "idle" =>
          /\ IsPrefix(planning_updates, planning_updates')
          /\ \A l \in lines :
               response_lines' = Append(response_lines, l) =>
                 Len(planning_updates') <= Len(planning_updates) + StepBudget(l)
          /\ response_lines' = response_lines => UNCHANGED planning_updates
       ]_vars
  /\ [](Parsed => planning_steps = <<planning_updates>>)

\* C25 witness: steps of tool uses and of status objects were logged in the
\* order read and stored so.
C25_Witness ==
  /\ ReturnedSummary
  /\ planning_updates = <<"Using search", "Running", "Using analyst", "Running">>
  /\ planning_steps = <<planning_updates>>

\* The request of the turn failed: timeout, connection error or a status
\* that raise_for_status rejects.
TransportFailed == pc # "idle" /\ transport \in {"Timeout", "RequestException"}

\* C26: in a turn whose request fails no line is read and, up to and after
\* the return of the error summary, the stored planning steps, queries,
\* verification data and flag and the ts and channel of the record are those
\* the previous turn left.
C26_FailedTransportKeepsStored ==
  TransportFailed =>
    /\ line_count = 0
    /\ planning_steps = <<PreviousSteps>>
    /\ sql_queries = << <<>> >>
    /\ verification_info = << {} >>
    /\ verified_query_used = <<FALSE>>
    /\ planning_message_ts = PreviousTs
    /\ planning_channel = "C1"

\* C26 witness: the turn after a successful one timed out and returned the
\* error summary; the client still holds the steps and the record of the
\* previous turn.
C26_Witness ==
  /\ pc = "returned"
  /\ transport = "Timeout"
  /\ result = <<ErrorSummary(ErrorOf("Timeout").error_msg)>>
  /\ planning_steps = <<PreviousSteps>>
  /\ planning_message_ts = PreviousTs

====
